---- MODULE Spec2Model ----
(***************************************************************************)
(* Model of src/app.py: the plate registry (SQLite table `plates`), the    *)
(* normalizer clean_plate_text, the OCR candidate filter recognize_plate,  *)
(* and the Streamlit handlers that drive them (single add, CSV import,     *)
(* delete, camera recognition, manual lookup).                             *)
(*                                                                         *)
(* A plate text is a sequence of one-character strings.  Owner names and   *)
(* departments are atomic strings.  The table is a set of rows.            *)
(***************************************************************************)
EXTENDS Integers, Sequences, FiniteSets

VARIABLES
    db,             \* rows of table `plates`
    pc,             \* "idle", or "import" while the CSV loop of tab2 runs
    page,           \* what the latest script run was given and rendered
    success_count,  \* tab2 loop local
    fail_count,     \* tab2 loop local
    index,          \* tab2 loop: rows already consumed
    nrows,          \* tab2 loop: len(df_upload)
    db0,            \* history: the table when the running import began
    dup_pre,        \* history: rows so far whose key was stored in db0
    dup_now,        \* history: rows so far whose key was stored when attempted
    text,           \* normalizer harness: the input string
    norm_out,       \* normalizer harness: outputs produced so far
    results,        \* filter harness: what reader.readtext returned
    detected_text,  \* filter harness: what recognize_plate returned
    fpc             \* filter harness: "start" or "done"

vars == <<db, pc, page, success_count, fail_count, index, nrows, db0,
          dup_pre, dup_now, text, norm_out, results, detected_text, fpc>>

regVars == <<db, pc, page, success_count, fail_count, index, nrows, db0,
             dup_pre, dup_now>>
loopVars == <<success_count, fail_count, index, nrows, db0, dup_pre, dup_now>>
normVars == <<text, norm_out>>
filterVars == <<results, detected_text, fpc>>

-----------------------------------------------------------------------------
(* Bounds and input sets *)

MaxLen == 4          \* longest text given to the normalizer harness
MaxDetections == 2   \* most detections in one OCR result
MaxImport == 3       \* most rows in one uploaded CSV

Alphabet == {"a", "A", "1", "-", " "}

Texts == UNION {[1..n -> Alphabet] : n \in 0..MaxLen}

\* Plate texts typed into the forms or found in CSV cells.
PlateTexts ==
    { <<"A", "-", "1", "a">>, <<"a", " ", "1", "A">>, <<"A", "1", "A">>,
      <<"1", "1", "a">>, <<"1", "-", "1", "A">>,
      <<"a", "1">>, <<"-">>, << >> }

\* Plate cells of an uploaded CSV: read_csv turns an empty cell into NaN, which
\* str() renders as text, so the loop never passes the empty string.
CsvPlates == PlateTexts \ { << >> }

\* (owner name, department) pairs typed into the forms or found in CSV cells.
Owners == { <<"Wang", "Eng">>, <<"Li", "Ops">> }

\* The add form may also be submitted with the name left empty.
FormOwners == Owners \cup { <<"", "Eng">> }

\* Texts the OCR engine reports, and its confidences in tenths.
OcrTexts ==
    { <<"A", "-", "1", "a">>, <<"a", " ", "1", "A">>, <<"1", "1", "a">>,
      <<"A", "A", "A", "A">>, <<"A", "-", "1">>, <<"a", "1">> }

Probs == {2, 3, 4}

Detections == [text : OcrTexts, prob : Probs]

OcrResults == UNION {[1..n -> Detections] : n \in 0..MaxDetections}

\* Headers an uploaded CSV may carry (ASCII stand-ins for the source's names).
required_cols == {"plate", "name", "department"}

ColumnSets == (SUBSET required_cols) \cup {required_cols \cup {"note"}}

-----------------------------------------------------------------------------
(* clean_plate_text *)

\* Variant: str.replace(ch, "", 1), which drops the first occurrence only.
Replace_first(s, ch) ==
    IF \E i \in 1..Len(s) : s[i] = ch
    THEN LET i == CHOOSE j \in 1..Len(s) :
                      s[j] = ch /\ \A m \in 1..(j - 1) : s[m] # ch
         IN  SubSeq(s, 1, i - 1) \o SubSeq(s, i + 1, Len(s))
    ELSE s

\* str.replace(ch, ""): every occurrence of the one-character string ch goes.
Replace(s, ch) == SelectSeq(s, LAMBDA c : c # ch)

\* str.upper() on the alphabet: the only cased letter is "a".
UpperChar(c) == IF c = "a" THEN "A" ELSE c

Upper(s) == [i \in 1..Len(s) |-> UpperChar(s[i])]

clean_plate_text(t) == Upper(Replace(Replace(t, "-"), " "))

-----------------------------------------------------------------------------
(* Registry: table `plates` and the functions over it *)

Row(k, n, d) == [plate_number |-> k, owner_name |-> n, department |-> d]

Keys(d) == {r.plate_number : r \in d}

None == << >>

\* Variant: the table has no primary key, so INSERT always adds the row.
add_plate_no_key(d, plate, name, dept) ==
    LET plate_clean == clean_plate_text(plate) IN
    [db |-> d \cup {[plate_number |-> plate_clean, owner_name |-> name,
                     department |-> dept]},
     ok |-> TRUE, plate_clean |-> plate_clean]

\* Variant: INSERT OR REPLACE, which overwrites the stored row.
add_plate_replace(d, plate, name, dept) ==
    LET plate_clean == clean_plate_text(plate) IN
    [db |-> {r \in d : r.plate_number # plate_clean}
              \cup {[plate_number |-> plate_clean, owner_name |-> name,
                     department |-> dept]},
     ok |-> TRUE, plate_clean |-> plate_clean]

\* Variant: the plate is stored as typed, without clean_plate_text.
add_plate_raw(d, plate, name, dept) ==
    IF plate \in {r.plate_number : r \in d}
    THEN [db |-> d, ok |-> FALSE, plate_clean |-> plate]
    ELSE [db |-> d \cup {[plate_number |-> plate, owner_name |-> name,
                          department |-> dept]},
          ok |-> TRUE, plate_clean |-> plate]

\* INSERT under PRIMARY KEY(plate_number): IntegrityError when the key is stored.
add_plate(d, plate, name, dept) ==
    LET plate_clean == clean_plate_text(plate) IN
    IF plate_clean \in Keys(d)
    THEN [db |-> d, ok |-> FALSE, plate_clean |-> plate_clean]
    ELSE [db |-> d \cup {Row(plate_clean, name, dept)}, ok |-> TRUE,
          plate_clean |-> plate_clean]

\* Variant: the argument is normalized before the DELETE.
delete_plate_clean(d, plate) ==
    {r \in d : r.plate_number # clean_plate_text(plate)}

\* DELETE ... WHERE plate_number = ?  (the argument is used as given).
delete_plate(d, plate) == {r \in d : r.plate_number # plate}

\* Variant: the SELECT uses the text as typed, without clean_plate_text.
get_owner_raw(d, plate_text) ==
    LET hits == {r \in d : r.plate_number = plate_text}
    IN  IF hits = {} THEN << >>
        ELSE LET r == CHOOSE h \in hits : TRUE
             IN  <<r.owner_name, r.department>>

\* SELECT ... WHERE plate_number = ? ; fetchone().
get_owner(d, plate_text) ==
    LET plate_clean == clean_plate_text(plate_text)
        hits == {r \in d : r.plate_number = plate_clean}
    IN  IF hits = {} THEN None
        ELSE LET r == CHOOSE h \in hits : TRUE
             IN  <<r.owner_name, r.department>>

-----------------------------------------------------------------------------
(* recognize_plate: the candidate filter *)

MIN_LEN == 3
PROB_TENTHS == 3

\* Variant: the confidence test is >= instead of >.
filter_step_ge(acc, det) ==
    LET c == clean_plate_text(det.text) IN
    IF Len(c) >= MIN_LEN /\ det.prob >= PROB_TENTHS THEN Append(acc, c) ELSE acc

\* One iteration of the loop over reader.readtext's detections.
filter_step(acc, det) ==
    LET c == clean_plate_text(det.text) IN
    IF Len(c) >= MIN_LEN /\ det.prob > PROB_TENTHS THEN Append(acc, c) ELSE acc

RECURSIVE filter_loop(_, _, _)
filter_loop(res, i, acc) ==
    IF i > Len(res) THEN acc
    ELSE filter_loop(res, i + 1, filter_step(acc, res[i]))

recognize_plate(res) == filter_loop(res, 1, << >>)

\* Every candidate list the camera branch can receive from recognize_plate.
RecognizedLists == {recognize_plate(r) : r \in OcrResults}

-----------------------------------------------------------------------------
(* Camera branch: resolution of the candidates against the registry *)

\* Variant: the loop has no break, so the last registered candidate is shown.
RECURSIVE resolve_last(_, _, _)
resolve_last(d, candidates, i) ==
    IF i < 1
    THEN [outcome |-> "Unmatched", text |-> << >>, owner |-> << >>,
          lookups |-> Len(candidates), shown |-> candidates]
    ELSE LET owner == get_owner(d, candidates[i]) IN
         IF owner # << >>
         THEN [outcome |-> "Matched", text |-> candidates[i], owner |-> owner,
               lookups |-> Len(candidates), shown |-> << >>]
         ELSE resolve_last(d, candidates, i - 1)

resolve_no_break(d, candidates) ==
    IF candidates = << >>
    THEN [outcome |-> "NoCandidates", text |-> << >>, owner |-> << >>,
          lookups |-> 0, shown |-> << >>]
    ELSE resolve_last(d, candidates, Len(candidates))

RECURSIVE resolve_loop(_, _, _)
resolve_loop(d, candidates, i) ==
    IF i > Len(candidates)
    THEN [outcome |-> "Unmatched", text |-> << >>, owner |-> None,
          lookups |-> Len(candidates), shown |-> candidates]
    ELSE LET owner == get_owner(d, candidates[i]) IN
         IF owner # None
         THEN [outcome |-> "Matched", text |-> candidates[i], owner |-> owner,
               lookups |-> i, shown |-> << >>]
         ELSE resolve_loop(d, candidates, i + 1)

resolve(d, candidates) ==
    IF candidates = << >>
    THEN [outcome |-> "NoCandidates", text |-> << >>, owner |-> None,
          lookups |-> 0, shown |-> << >>]
    ELSE resolve_loop(d, candidates, 1)

-----------------------------------------------------------------------------
(* The registry application: one action per script run (or loop iteration) *)

NoLoop ==
    /\ success_count = 0 /\ fail_count = 0 /\ index = 0 /\ nrows = 0
    /\ db0 = {} /\ dup_pre = 0 /\ dup_now = 0

Init ==
    /\ db = {}
    /\ pc = "idle"
    /\ page = [op |-> "start"]
    /\ NoLoop
    /\ text = << >> /\ norm_out = << >>
    /\ results = << >> /\ detected_text = << >> /\ fpc = "done"

\* tab1: the add form is submitted.
Tab1Submit(new_plate, new_name, new_dept) ==
    /\ pc = "idle"
    /\ IF new_plate # << >> /\ new_name # ""
       THEN LET r == add_plate(db, new_plate, new_name, new_dept) IN
            /\ db' = r.db
            /\ page' = [op |-> "add", plate |-> new_plate, name |-> new_name,
                        dept |-> new_dept, ok |-> r.ok, msg |-> r.plate_clean]
       ELSE /\ db' = db
            /\ page' = [op |-> "add_incomplete"]
    /\ UNCHANGED <<pc, loopVars, normVars, filterVars>>

\* Variant: the header is not checked before the loop.
Tab2Run_unchecked(columns, n, click) ==
    /\ pc = "idle"
    /\ IF ~click
       THEN /\ page' = [op |-> "tab2", columns |-> columns, out |-> "preview"]
            /\ UNCHANGED <<pc, loopVars>>
       ELSE /\ page' = [op |-> "tab2", columns |-> columns, out |-> "importing"]
            /\ pc' = "import"
            /\ success_count' = 0 /\ fail_count' = 0
            /\ index' = 0 /\ nrows' = n
            /\ db0' = db /\ dup_pre' = 0 /\ dup_now' = 0
    /\ UNCHANGED <<db, normVars, filterVars>>

\* tab2: a script run with an uploaded CSV of the given header and length;
\* click says whether this run was caused by the confirm button.
Tab2Run(columns, n, click) ==
    /\ pc = "idle"
    /\ IF ~(required_cols \subseteq columns)
       THEN /\ page' = [op |-> "tab2", columns |-> columns, out |-> "SchemaError"]
            /\ UNCHANGED <<pc, loopVars>>
       ELSE IF ~click
       THEN /\ page' = [op |-> "tab2", columns |-> columns, out |-> "preview"]
            /\ UNCHANGED <<pc, loopVars>>
       ELSE /\ page' = [op |-> "tab2", columns |-> columns, out |-> "importing"]
            /\ pc' = "import"
            /\ success_count' = 0 /\ fail_count' = 0
            /\ index' = 0 /\ nrows' = n
            /\ db0' = db /\ dup_pre' = 0 /\ dup_now' = 0
    /\ UNCHANGED <<db, normVars, filterVars>>

\* Variant: the loop stops at the first row that fails.
ImportRow_abort(plate, name, dept) ==
    /\ pc = "import" /\ index < nrows
    /\ LET r == add_plate(db, plate, name, dept)
           k == clean_plate_text(plate)
       IN  /\ db' = r.db
           /\ success_count' = IF r.ok THEN success_count + 1 ELSE success_count
           /\ fail_count' = IF r.ok THEN fail_count ELSE fail_count + 1
           /\ dup_pre' = IF k \in Keys(db0) THEN dup_pre + 1 ELSE dup_pre
           /\ dup_now' = IF k \in Keys(db) THEN dup_now + 1 ELSE dup_now
           /\ page' = [op |-> "row", plate |-> plate, name |-> name,
                       dept |-> dept, ok |-> r.ok, msg |-> r.plate_clean]
           /\ index' = IF r.ok THEN index + 1 ELSE nrows
    /\ UNCHANGED <<pc, nrows, db0, normVars, filterVars>>

\* tab2: one iteration of the loop over df_upload.iterrows(); the row's cells
\* are read when the loop reaches it.
ImportRow(plate, name, dept) ==
    /\ pc = "import" /\ index < nrows
    /\ LET r == add_plate(db, plate, name, dept)
           k == clean_plate_text(plate)
       IN  /\ db' = r.db
           /\ success_count' = IF r.ok THEN success_count + 1 ELSE success_count
           /\ fail_count' = IF r.ok THEN fail_count ELSE fail_count + 1
           /\ dup_pre' = IF k \in Keys(db0) THEN dup_pre + 1 ELSE dup_pre
           /\ dup_now' = IF k \in Keys(db) THEN dup_now + 1 ELSE dup_now
           /\ page' = [op |-> "row", plate |-> plate, name |-> name,
                       dept |-> dept, ok |-> r.ok, msg |-> r.plate_clean]
    /\ index' = index + 1
    /\ UNCHANGED <<pc, nrows, db0, normVars, filterVars>>

\* tab2: the loop is over and the totals are shown.
ImportDone ==
    /\ pc = "import" /\ index = nrows
    /\ page' = [op |-> "import", n |-> nrows, success |-> success_count,
                fail |-> fail_count, m_pre |-> dup_pre, m_now |-> dup_now,
                grown |-> Cardinality(db) - Cardinality(db0)]
    /\ pc' = "idle"
    /\ success_count' = 0 /\ fail_count' = 0 /\ index' = 0 /\ nrows' = 0
    /\ db0' = {} /\ dup_pre' = 0 /\ dup_now' = 0
    /\ UNCHANGED <<db, normVars, filterVars>>

\* tab3: the delete button, with the select box on one of the listed keys.
Tab3Delete(del_plate) ==
    /\ pc = "idle"
    /\ del_plate \in Keys(db)
    /\ IF del_plate # << >>
       THEN /\ db' = delete_plate(db, del_plate)
            /\ page' = [op |-> "delete", plate |-> del_plate, existed |-> TRUE]
       ELSE /\ db' = db
            /\ page' = [op |-> "delete_skipped"]
    /\ UNCHANGED <<pc, loopVars, normVars, filterVars>>

\* delete_plate called with any text (the Delete(plate) operation).
DeletePlate(plate) ==
    /\ pc = "idle"
    /\ db' = delete_plate(db, plate)
    /\ page' = [op |-> "delete", plate |-> plate, existed |-> plate \in Keys(db)]
    /\ UNCHANGED <<pc, loopVars, normVars, filterVars>>

\* Front page: a photo was taken and recognize_plate returned candidates.
CameraRun(candidates) ==
    /\ pc = "idle"
    /\ page' = [op |-> "camera", candidates |-> candidates,
                result |-> resolve(db, candidates)]
    /\ UNCHANGED <<db, pc, loopVars, normVars, filterVars>>

\* Front page: the manual lookup form is submitted.
ManualLookup(manual_input) ==
    /\ pc = "idle"
    /\ IF manual_input # << >>
       THEN page' = [op |-> "lookup", input |-> manual_input,
                     owner |-> get_owner(db, manual_input),
                     shown |-> Upper(manual_input)]
       ELSE page' = [op |-> "lookup_empty"]
    /\ UNCHANGED <<db, pc, loopVars, normVars, filterVars>>

DeleteArgs == PlateTexts \cup {clean_plate_text(p) : p \in PlateTexts}

Next ==
    \/ \E p \in PlateTexts, o \in FormOwners : Tab1Submit(p, o[1], o[2])
    \/ \E c \in ColumnSets, n \in 0..MaxImport, b \in BOOLEAN : Tab2Run(c, n, b)
    \/ \E p \in CsvPlates, o \in Owners : ImportRow(p, o[1], o[2])
    \/ ImportDone
    \/ \E k \in Keys(db) : Tab3Delete(k)
    \/ \E p \in DeleteArgs : DeletePlate(p)
    \/ \E c \in RecognizedLists : CameraRun(c)
    \/ \E t \in PlateTexts : ManualLookup(t)

Spec == Init /\ [][Next]_vars

-----------------------------------------------------------------------------
(* Normalizer harness: clean_plate_text applied to a text, then to its output *)

InitNorm ==
    /\ db = {} /\ pc = "idle" /\ page = [op |-> "start"] /\ NoLoop
    /\ text \in Texts /\ norm_out = << >>
    /\ results = << >> /\ detected_text = << >> /\ fpc = "done"

Normalize ==
    /\ Len(norm_out) < 2
    /\ norm_out' = Append(norm_out,
                          clean_plate_text(IF norm_out = << >> THEN text
                                           ELSE norm_out[Len(norm_out)]))
    /\ UNCHANGED <<text, regVars, filterVars>>

NextNorm == Normalize

SpecNorm == InitNorm /\ [][NextNorm]_vars

-----------------------------------------------------------------------------
(* Filter harness: recognize_plate applied to an OCR result *)

InitFilter ==
    /\ db = {} /\ pc = "idle" /\ page = [op |-> "start"] /\ NoLoop
    /\ text = << >> /\ norm_out = << >>
    /\ results \in OcrResults /\ detected_text = << >> /\ fpc = "start"

Recognize ==
    /\ fpc = "start"
    /\ detected_text' = recognize_plate(results)
    /\ fpc' = "done"
    /\ UNCHANGED <<results, regVars, normVars>>

NextFilter == Recognize

SpecFilter == InitFilter /\ [][NextFilter]_vars

-----------------------------------------------------------------------------
(* Properties *)

Separators == {"-", " "}

\* A text with its separators dropped and its letters lower-cased: two texts
\* differ only in letter casing and in hyphens and spaces iff their folds agree.
Fold(t) ==
    LET kept == SelectSeq(t, LAMBDA c : c \notin Separators)
    IN  [i \in 1..Len(kept) |-> IF kept[i] = "A" THEN "a" ELSE kept[i]]

AllTexts == {t : t \in Texts \cup PlateTexts}

\* Each plate text paired with the set of texts that differ from it only so.
VariantSets ==
    {<<p, {q \in AllTexts : Fold(q) = Fold(p)}>> : p \in PlateTexts}

IsInsert(pg) == pg.op \in {"add", "row"}

\* C1 - Uniqueness: whatever adds, import rows and deletes have run, no two
\* rows of the table carry the same plate_number.
C1_Unique ==
    \A r1 \in db, r2 \in db : r1.plate_number = r2.plate_number => r1 = r2

C1_Witness ==
    /\ page.op = "row" /\ ~page.ok
    /\ Cardinality(db) >= 2
    /\ \E r \in db : r.plate_number = page.msg /\ r.owner_name # page.name

\* C2 - Insert/lookup round trip: right after a successful insert of (p, n, d)
\* get_owner returns (n, d) for every text that differs from p only in casing,
\* hyphens and spaces, and a step that is not a delete keeps every answer
\* get_owner gave.
C2_RoundTrip ==
    [][ /\ (IsInsert(page') /\ page'.ok) =>
              \A ps \in VariantSets :
                  ps[1] = page'.plate =>
                      \A q \in ps[2] :
                          get_owner(db', q) = <<page'.name, page'.dept>>
        /\ (page'.op # "delete" /\ db' # db) =>
              \A q \in PlateTexts :
                  \/ get_owner(db', q) = get_owner(db, q)
                  \/ get_owner(db, q) = None
      ]_vars

C2_Witness ==
    /\ page.op = "add" /\ page.ok
    /\ page.plate = <<"A", "-", "1", "a">>
    /\ get_owner(db, <<"a", " ", "1", "A">>) = <<page.name, page.dept>>
    /\ Cardinality(db) >= 2

\* C3 - Insert never overwrites: an insert whose canonical plate is already a
\* key reports failure and leaves the table as it was, and no step changes the
\* owner or department stored under a key that stays in the table.
C3_NoOverwrite ==
    [][ /\ (IsInsert(page') /\ clean_plate_text(page'.plate) \in Keys(db)) =>
              (~page'.ok /\ db' = db)
        /\ \A r \in db, r2 \in db' :
              r2.plate_number = r.plate_number => r2 = r
      ]_vars

C3_Witness ==
    /\ page.op = "add" /\ ~page.ok
    /\ \E r \in db : /\ r.plate_number = clean_plate_text(page.plate)
                     /\ <<r.owner_name, r.department>> # <<page.name, page.dept>>

\* C4 as stated - an import of N rows of which M duplicate records stored
\* before the import reports N - M successes and M failures, and the table
\* grows by N - M.
C4_Original ==
    page.op = "import" =>
        /\ page.success = page.n - page.m_pre
        /\ page.fail = page.m_pre
        /\ page.grown = page.n - page.m_pre

\* C4 - Bulk import reconciliation: an import of N rows of which M carry a
\* canonical plate that is stored when the row is attempted (stored before the
\* import or by an earlier row of it) reports N - M successes and M failures,
\* the table grows by N - M, and every one of the N rows is attempted.
C4_Reconciliation ==
    page.op = "import" =>
        /\ page.success = page.n - page.m_now
        /\ page.fail = page.m_now
        /\ page.grown = page.n - page.m_now
        /\ page.success + page.fail = page.n

C4_Witness ==
    /\ page.op = "import" /\ page.n = 3
    /\ page.m_pre = 1 /\ page.m_now = 2 /\ page.success = 1

\* C5 - Resolver outcome: NoCandidates iff there is no candidate; otherwise
\* Matched on the first candidate whose canonical form is a key, with that
\* row's owner and department and no lookup after the hit; otherwise Unmatched
\* carrying the whole candidate list.
C5_Resolver ==
    page.op = "camera" =>
        LET c == page.candidates
            r == page.result
            hits == {i \in 1..Len(c) : clean_plate_text(c[i]) \in Keys(db)}
        IN  /\ (r.outcome = "NoCandidates") <=> (c = << >>)
            /\ (c # << >> /\ hits # {}) =>
                  LET j == CHOOSE i \in hits : \A m \in hits : i <= m IN
                  /\ r.outcome = "Matched"
                  /\ r.text = c[j]
                  /\ Row(clean_plate_text(c[j]), r.owner[1], r.owner[2]) \in db
                  /\ r.lookups = j
            /\ (c # << >> /\ hits = {}) =>
                  /\ r.outcome = "Unmatched"
                  /\ r.shown = c
                  /\ r.lookups = Len(c)

C5_Witness ==
    /\ page.op = "camera"
    /\ Len(page.candidates) = 2
    /\ page.candidates[1] # page.candidates[2]
    /\ \A i \in 1..2 : page.candidates[i] \in Keys(db)
    /\ page.result.outcome = "Matched"
    /\ page.result.text = page.candidates[1]

C7_SchemaAtomic ==
    [][ /\ (page'.op = "tab2" /\ ~(required_cols \subseteq page'.columns)) =>
              (page'.out = "SchemaError" /\ db' = db /\ pc' = "idle")
        /\ (pc = "idle" /\ pc' = "import") =>
              (page'.op = "tab2" /\ required_cols \subseteq page'.columns)
        /\ page'.op = "row" => pc = "import"
      ]_vars

C7_Witness ==
    /\ page.op = "tab2" /\ page.out = "SchemaError"
    /\ Cardinality(page.columns) = 2
    /\ db # {}

\* C8 - Canonical keys: every stored plate_number has no hyphen, no space and
\* no lower-case letter and is a fixed point of clean_plate_text, and a
\* successful insert stores the row under clean_plate_text of the text given.
C8_Canonical ==
    /\ \A r \in db :
          /\ \A i \in 1..Len(r.plate_number) :
                r.plate_number[i] \notin Separators \cup {"a"}
          /\ clean_plate_text(r.plate_number) = r.plate_number
    /\ (IsInsert(page) /\ page.ok) =>
          Row(clean_plate_text(page.plate), page.name, page.dept) \in db

C8_Witness ==
    /\ page.op = "row" /\ page.ok
    /\ page.plate = <<"a", " ", "1", "A">>
    /\ \E r \in db : r.plate_number = <<"A", "1", "A">>

\* C9 - Delete idempotence: delete_plate of a key that is not stored leaves
\* the table as it was; after any delete_plate(p) the key p is absent, every
\* other row is untouched, and a second delete_plate(p) changes nothing.
C9_DeleteIdempotent ==
    [][ page'.op = "delete" =>
          /\ page'.plate \notin Keys(db) => db' = db
          /\ page'.plate \notin Keys(db')
          /\ \A r \in db : r.plate_number # page'.plate => r \in db'
          /\ db' \subseteq db
          /\ delete_plate(db', page'.plate) = db'
      ]_vars

C9_Witness ==
    /\ page.op = "delete" /\ ~page.existed
    /\ page.plate = <<"a", "1">>
    /\ <<"A", "1">> \in Keys(db)

\* C10 - Normalization idempotence: clean_plate_text applied to its own output
\* returns that output.
C10_Idempotent ==
    Len(norm_out) = 2 => norm_out[2] = norm_out[1]

C10_Witness ==
    /\ Len(norm_out) = 2
    /\ text = <<"-", "a", " ", "-">>
    /\ norm_out[1] = <<"A">>

====
